---- MODULE Spec2Model ----
(***************************************************************************)
(* A model of the Lightning Network transaction simulator                  *)
(* (scripts/simulate_network.py): the control loop of main, the payment    *)
(* executor simulate_transaction, the periodic rebalancer, the targeted    *)
(* (auto-recovery) rebalancer, the channel snapshot and the CSV event log. *)
(*                                                                         *)
(* The lnd nodes are external.  What a node answers to listchannels and    *)
(* getinfo is a "world" w; what addinvoice and payinvoice answer is an     *)
(* input of the action that calls them.  The random module's draws are     *)
(* inputs too.  Percentages are compared as exact fractions; the sampled   *)
(* channels keep local/capacity at multiples of 10%, where Python's float  *)
(* arithmetic gives the same values.                                       *)
(***************************************************************************)
EXTENDS Integers, Sequences, FiniteSets, TLC

(***************************************************************************)
(* Configuration (simulate_network.py lines 21-39)                         *)
(***************************************************************************)
\* The first three of the five configured nodes, in list order.
NODES == <<"lnd-alice", "lnd-bob", "lnd-carol">>

MIN_PAYMENT_AMOUNT == 500

MAX_PAYMENT_AMOUNT == 3000

\* RECOVERY_REBALANCE_AMOUNT = 0.2, as a percentage.
RECOVERY_REBALANCE_PCT == 20

PATTERNS == {"direct_payment", "multi_hop", "circular_payment"}

\* The model's bound on control-loop iterations (the code's is wall-clock time).
MaxIter == 3

\* The model's bound on periodic channel snapshots.
MaxSnapshots == 1

NodeSet == {NODES[i] : i \in 1..Len(NODES)}

None == "None"

Max(a, b) == IF a >= b THEN a ELSE b

Min(a, b) == IF a <= b THEN a ELSE b

Abs(a) == IF a >= 0 THEN a ELSE -a

(***************************************************************************)
(* The node-control interface.  A world answers listchannels and getinfo:  *)
(*   w.channels[n] = [ok, channels]  ok = FALSE is "no result" (None)      *)
(*   w.info[n]     = the node's identity_pubkey, or None                   *)
(* A node's pubkey is written as the node's own name; "pk-ext" is the key  *)
(* of a peer outside NODES.                                                *)
(***************************************************************************)
NoListing == [ok |-> FALSE, channels |-> <<>>]

Listing(chs) == [ok |-> TRUE, channels |-> chs]

Chan(peer, cap, loc) == [remote_pubkey |-> peer, capacity |-> cap, local_balance |-> loc]

\* get_node_channels(node)
get_node_channels(w, node) == w.channels[node]

\* get_node_info(node).get("identity_pubkey"), None when getinfo gave nothing
get_node_pubkey(w, node) == w.info[node]

\* "not channels or not channels.get('channels')"
NoChannels(l) == ~l.ok \/ l.channels = <<>>

(***************************************************************************)
(* Pattern Selector: select_nodes_for_pattern (lines 165-231)              *)
(***************************************************************************)
Description(circular, third) == [circular |-> circular, third |-> third]

PlainDescription == Description(FALSE, None)

Selection(s, r, d) == [sender |-> s, receiver |-> r, description |-> d]

\* The inner "for node in NODES: ... break": the first node, in list order,
\* whose getinfo answered with this pubkey; None when there is none.
NodeOfPubkey(w, pubkey) ==
  LET hits == {i \in 1..Len(NODES) : get_node_pubkey(w, NODES[i]) # None
                                     /\ get_node_pubkey(w, NODES[i]) = pubkey}
  IN IF hits = {} THEN None
     ELSE NODES[CHOOSE i \in hits : \A j \in hits : i <= j]

\* channel_peers / directly_connected: the nodes the listed channels resolve to.
ChannelPeers(w, l) ==
  {NodeOfPubkey(w, l.channels[i].remote_pubkey) : i \in 1..Len(l.channels)} \ {None}

OthersThan(sender) == NodeSet \ {sender}

\* lines 167-189 taking the fallback of line 173 always
DirectReceiversIgnoringChannels(w, sender) == OthersThan(sender)

\* lines 167-189, for the sender random.choice(NODES) drew
DirectReceivers(w, sender) ==
  LET l == get_node_channels(w, sender)
  IN IF NoChannels(l) THEN OthersThan(sender)
     ELSE IF ChannelPeers(w, l) # {} THEN ChannelPeers(w, l)
     ELSE OthersThan(sender)

\* lines 191-212 without the "n != sender" of line 207
MultiHopReceiversAnyNode(w, sender) ==
  LET l == get_node_channels(w, sender)
      directly_connected == IF NoChannels(l) THEN {} ELSE ChannelPeers(w, l)
      potential_receivers == {n \in NodeSet : n \notin directly_connected}
  IN IF potential_receivers # {} THEN potential_receivers ELSE OthersThan(sender)

\* lines 191-212
MultiHopReceivers(w, sender) ==
  LET l == get_node_channels(w, sender)
      directly_connected == IF NoChannels(l) THEN {} ELSE ChannelPeers(w, l)
      potential_receivers == {n \in NodeSet : n # sender /\ n \notin directly_connected}
  IN IF potential_receivers # {} THEN potential_receivers ELSE OthersThan(sender)

\* lines 214-229 drawing the third node among all the nodes but the sender
CircularSelectionsThirdAny(sender) ==
  {Selection(sender, r, Description(TRUE, t)) :
     <<r, t>> \in {p \in NodeSet \X NodeSet : p[1] # sender /\ p[2] # sender}}

\* lines 214-229: random.sample(NODES, 3) with sender drawn first
CircularSelections(sender) ==
  IF Len(NODES) >= 3
  THEN {Selection(sender, r, Description(TRUE, t)) :
          <<r, t>> \in {p \in NodeSet \X NodeSet :
                          p[1] # sender /\ p[2] # sender /\ p[1] # p[2]}}
  ELSE {Selection(sender, r, PlainDescription) : r \in OthersThan(sender)}

\* Every (sender, receiver, description) the call can return when the first
\* random draw is `sender`.
SelectFrom(pattern, w, sender) ==
  CASE pattern = "direct_payment" ->
         {Selection(sender, r, PlainDescription) : r \in DirectReceivers(w, sender)}
    [] pattern = "multi_hop" ->
         {Selection(sender, r, PlainDescription) : r \in MultiHopReceivers(w, sender)}
    [] OTHER -> CircularSelections(sender)

select_nodes_for_pattern(pattern, w, senders) ==
  UNION {SelectFrom(pattern, w, s) : s \in senders}

(***************************************************************************)
(* Feasibility Checker: check_payment_feasibility (lines 233-259)          *)
(***************************************************************************)
DirectFeasibility(w, sender, receiver, amount) ==
  LET l == get_node_channels(w, sender)
  IN /\ ~NoChannels(l)
     /\ \E i \in 1..Len(l.channels) :
          /\ get_node_pubkey(w, receiver) # None
          /\ get_node_pubkey(w, receiver) = l.channels[i].remote_pubkey
          /\ l.channels[i].local_balance >= amount

check_payment_feasibility(w, sender, receiver, amount) ==
  LET l == get_node_channels(w, sender)
      direct == \E i \in 1..Len(l.channels) :
                  /\ get_node_pubkey(w, receiver) # None
                  /\ get_node_pubkey(w, receiver) = l.channels[i].remote_pubkey
                  /\ l.channels[i].local_balance >= amount
      lenient == \E i \in 1..Len(l.channels) : l.channels[i].local_balance >= amount
  IN IF NoChannels(l) THEN FALSE
     ELSE IF direct THEN TRUE
     ELSE lenient

(***************************************************************************)
(* The adjustment loop of simulate_transaction (lines 284-299)             *)
(***************************************************************************)
Candidate(sel, generated, amount, attempts) ==
  [sender |-> sel.sender, receiver |-> sel.receiver, description |-> sel.description,
   generated |-> generated, amount |-> amount, attempts |-> attempts,
   last |-> "none"]

\* line 295
HalveAmountNoFloor(amount) == amount \div 2

HalveAmount(amount) == Max(MIN_PAYMENT_AMOUNT, amount \div 2)

\* line 293 without "or attempts > 1": the coin alone decides
AdjustOnceByCoin(pattern, w, senders, c) ==
  {[c EXCEPT !.amount = HalveAmount(c.amount), !.attempts = c.attempts + 1,
             !.last = "halve"]}
  \cup {[c EXCEPT !.sender = sel.sender, !.receiver = sel.receiver,
                  !.description = sel.description, !.attempts = c.attempts + 1,
                  !.last = "reselect"] :
          sel \in select_nodes_for_pattern(pattern, w, senders)}

\* One pass of the while body: the coin (or attempts > 1) halves the amount,
\* otherwise the pair is selected again.  last is what this pass did.
AdjustOnce(pattern, w, senders, c) ==
  {[c EXCEPT !.amount = HalveAmount(c.amount), !.attempts = c.attempts + 1,
             !.last = "halve"]}
  \cup (IF c.attempts > 1 THEN {}
        ELSE {[c EXCEPT !.sender = sel.sender, !.receiver = sel.receiver,
                        !.description = sel.description, !.attempts = c.attempts + 1,
                        !.last = "reselect"] :
                sel \in select_nodes_for_pattern(pattern, w, senders)})

RECURSIVE AdjustLoop(_, _, _, _)
\* lines 288-299: every candidate the loop can end with
AdjustLoop(pattern, w, senders, c) ==
  IF c.attempts < 3 /\ ~check_payment_feasibility(w, c.sender, c.receiver, c.amount)
  THEN UNION {AdjustLoop(pattern, w, senders, c2) : c2 \in AdjustOnce(pattern, w, senders, c)}
  ELSE {c}

\* lines 277-299: pattern, pair and amount as handed to the payment
Candidates(pattern, w, senders, amounts) ==
  UNION {AdjustLoop(pattern, w, senders, Candidate(sel, a, a, 0)) :
           <<sel, a>> \in select_nodes_for_pattern(pattern, w, senders) \X amounts}

(***************************************************************************)
(* Payment results: pay_invoice (lines 133-146) and their classification   *)
(* in simulate_transaction (lines 328-390)                                 *)
(***************************************************************************)
\* A fee as the JSON carries it: int(fee) gives val, or raises when ~int.
IntFee(n) == [int |-> TRUE, val |-> n]

BadFee == [int |-> FALSE, val |-> 0]

\* The parsed payinvoice answer.  truthy = FALSE is an empty JSON value;
\* payment_error = TRUE is a present, non-empty error field.
PayDict(truthy, err, status, hasRoute, totalFees, hops, hasFee, fee) ==
  [truthy |-> truthy, payment_error |-> err, status |-> status,
   has_route |-> hasRoute, total_fees |-> totalFees, hops |-> hops,
   has_fee |-> hasFee, fee |-> fee]

\* lines 145-146: {"status": "failed"}
FailedDict == PayDict(TRUE, FALSE, "failed", FALSE, IntFee(0), 0, FALSE, IntFee(0))

\* What the payinvoice command printed: nothing (timeout, non-zero exit or
\* empty output), text that is no JSON, or a JSON value.
NoOutput == [kind |-> "none", json |-> FailedDict]

GarbageOutput == [kind |-> "garbage", json |-> FailedDict]

JsonOutput(d) == [kind |-> "json", json |-> d]

\* lines 140-146
pay_invoice(output) == IF output.kind = "json" THEN output.json ELSE FailedDict

\* lines 334-335, 347: the only branch that sets success = True
PaymentSucceededDespiteError(res) == res.truthy /\ res.status = "SUCCEEDED"

PaymentSucceeded(res) ==
  res.truthy /\ ~res.payment_error /\ res.status = "SUCCEEDED"

\* lines 330, 353-366
FeeOf(res) ==
  IF ~PaymentSucceeded(res) THEN IntFee(0)
  ELSE IF res.has_route THEN res.total_fees
  ELSE IF res.has_fee THEN res.fee
  ELSE IntFee(0)

\* lines 332, 356-357
RouteLengthOf(res) ==
  IF PaymentSucceeded(res) /\ res.has_route THEN res.hops ELSE 1

(***************************************************************************)
(* Statistics (lines 78-91) and their updates                              *)
(***************************************************************************)
InitStats ==
  [total_payments |-> 0, successful_payments |-> 0, failed_payments |-> 0,
   total_amount |-> 0, total_fees |-> 0,
   node_payments |-> [n \in NodeSet |-> [sent |-> 0, received |-> 0]],
   rebalance_operations |-> 0, rebalance_successes |-> 0,
   consecutive_failures |-> 0,
   auto_rebalance_events |-> 0, auto_rebalance_successes |-> 0]

\* lines 336, 349, 368, 380: the consecutive-failure counter after a payment
FailureCountNoReset(cf, success) == IF success THEN cf ELSE cf + 1

FailureCount(cf, success) == IF success THEN 0 ELSE cf + 1

\* lines 397-400: int(fee), ignored when it raises
FeeAdded(fee) == IF fee.int THEN fee.val ELSE 0

\* lines 392-406, with the counter update of lines 334-390
PaymentStatsCreditReceiver(st, sender, receiver, amount, fee, success) ==
  IF success
  THEN [st EXCEPT !.total_payments = @ + 1,
                  !.successful_payments = @ + 1,
                  !.total_amount = @ + amount,
                  !.total_fees = @ + FeeAdded(fee),
                  !.node_payments[receiver].sent = @ + amount,
                  !.node_payments[sender].received = @ + amount,
                  !.consecutive_failures = FailureCount(@, TRUE)]
  ELSE [st EXCEPT !.total_payments = @ + 1,
                  !.failed_payments = @ + 1,
                  !.consecutive_failures = FailureCount(@, FALSE)]

\* lines 392-406 without line 404: the receiver is not credited
PaymentStatsSentOnly(st, sender, receiver, amount, fee, success) ==
  IF success
  THEN [st EXCEPT !.total_payments = @ + 1,
                  !.successful_payments = @ + 1,
                  !.total_amount = @ + amount,
                  !.total_fees = @ + FeeAdded(fee),
                  !.node_payments[sender].sent = @ + amount,
                  !.consecutive_failures = FailureCount(@, TRUE)]
  ELSE [st EXCEPT !.total_payments = @ + 1,
                  !.failed_payments = @ + 1,
                  !.consecutive_failures = FailureCount(@, FALSE)]

PaymentStats(st, sender, receiver, amount, fee, success) ==
  IF success
  THEN [st EXCEPT !.total_payments = @ + 1,
                  !.successful_payments = @ + 1,
                  !.total_amount = @ + amount,
                  !.total_fees = @ + FeeAdded(fee),
                  !.node_payments[sender].sent = @ + amount,
                  !.node_payments[receiver].received = @ + amount,
                  !.consecutive_failures = FailureCount(@, TRUE)]
  ELSE [st EXCEPT !.total_payments = @ + 1,
                  !.failed_payments = @ + 1,
                  !.consecutive_failures = FailureCount(@, FALSE)]

(***************************************************************************)
(* Event records (the rows handed to log_transaction)                      *)
(***************************************************************************)
Event(type, sender, receiver, amount, fee, routeLength, success, description) ==
  [type |-> type, sender |-> sender, receiver |-> receiver, amount |-> amount,
   fee |-> fee, route_length |-> routeLength, success |-> success,
   description |-> description]

\* lines 432-446
PaymentEvent(c, res) ==
  Event("payment", c.sender, c.receiver, c.amount, FeeOf(res), RouteLengthOf(res),
        PaymentSucceeded(res), c.description)

\* lines 313-446: what the call returns, <<>> for None
simulate_transaction(c, invoice, output) ==
  IF invoice # "ok" THEN <<>> ELSE <<PaymentEvent(c, pay_invoice(output))>>

\* lines 885-899
SnapshotEvent == Event("snapshot", "", "", 0, IntFee(0), 0, TRUE, PlainDescription)

(***************************************************************************)
(* The CSV event log.  A record is one cell; the cell holds the record's   *)
(* place in the emitted stream (0 is the header row).  main writes through *)
(* the handle it opened with mode 'w' (line 985): rows collect in the      *)
(* handle's buffer and flush writes them at the handle's own offset.       *)
(* targeted_rebalance and log_channel_snapshot open the file with mode 'a' *)
(* (lines 867, 902): their rows go to the end of the file on close.        *)
(***************************************************************************)
HeaderRow == 0

\* open(CSV_OUTPUT, 'w') followed by writerow(CSV_HEADERS), lines 985-987
OpenedLog == [buffer |-> <<HeaderRow>>, pos |-> 0]

\* csv_writer.writerow through main's handle (log_transaction, lines 563-583)
BufferRow(h, row) == [h EXCEPT !.buffer = Append(@, row)]

\* The bytes of `rows` written at offset pos of file d.
WriteAt(d, pos, rows) ==
  [i \in 1..Max(Len(d), pos + Len(rows)) |->
     IF i > pos /\ i <= pos + Len(rows) THEN rows[i - pos] ELSE d[i]]

\* csvfile.flush() (line 1018) and the close at the end of the with block
FlushedDisk(h, d) == WriteAt(d, h.pos, h.buffer)

FlushedHandle(h) == [buffer |-> <<>>, pos |-> h.pos + Len(h.buffer)]

\* with open(CSV_OUTPUT, 'a') ...: log_transaction(...)  (lines 866-869, 902-904)
AppendRows(d, rows) == d \o rows

(***************************************************************************)
(* Targeted (auto-recovery) rebalance: targeted_rebalance (lines 729-874)  *)
(***************************************************************************)
\* lines 756-763: the first other node whose pubkey is the channel's peer
RemoteNodeOf(w, node, pubkey) ==
  LET hits == {i \in 1..Len(NODES) : /\ NODES[i] # node
                                     /\ get_node_pubkey(w, NODES[i]) # None
                                     /\ get_node_pubkey(w, NODES[i]) = pubkey}
  IN IF hits = {} THEN "unknown"
     ELSE NODES[CHOOSE i \in hits : \A j \in hits : i <= j]

\* lines 765-773
ChannelEntry(w, node, ch) ==
  [node |-> node, remote_node |-> RemoteNodeOf(w, node, ch.remote_pubkey),
   capacity |-> ch.capacity, local_balance |-> ch.local_balance]

\* lines 742-746 for one node
NodeEntries(w, node) ==
  LET l == get_node_channels(w, node)
  IN IF ~l.ok THEN <<>>
     ELSE [i \in 1..Len(l.channels) |-> ChannelEntry(w, node, l.channels[i])]

RECURSIVE ScanNodes(_, _)
\* lines 741-773 for the first k nodes: the channels in discovery order
ScanNodes(w, k) ==
  IF k = 0 THEN <<>> ELSE ScanNodes(w, k - 1) \o NodeEntries(w, NODES[k])

\* line 752 divides by the capacity: ZeroDivisionError on a capacity of 0
ScanRaises(w) ==
  \E i \in 1..Len(ScanNodes(w, Len(NODES))) : ScanNodes(w, Len(NODES))[i].capacity = 0

\* lines 752-753: imbalance = abs(50 - local/capacity*100) is
\* 50 * ImbalanceNum(e) / e.capacity
ImbalanceNum(e) == Abs(e.capacity - 2 * e.local_balance)

\* imbalance(a) < imbalance(b), for capacities > 0
LessImbalanced(a, b) ==
  ImbalanceNum(a) * b.capacity < ImbalanceNum(b) * a.capacity

\* Insert x behind every entry that is at least as imbalanced.
InsertAscending(sorted, x) ==
  LET before == {i \in 1..Len(sorted) : ~LessImbalanced(x, sorted[i])}
      k == IF before = {} THEN 0 ELSE CHOOSE i \in before : \A j \in before : j <= i
  IN SubSeq(sorted, 1, k) \o <<x>> \o SubSeq(sorted, k + 1, Len(sorted))

InsertByImbalance(sorted, x) ==
  LET before == {i \in 1..Len(sorted) : ~LessImbalanced(sorted[i], x)}
      k == IF before = {} THEN 0 ELSE CHOOSE i \in before : \A j \in before : j <= i
  IN SubSeq(sorted, 1, k) \o <<x>> \o SubSeq(sorted, k + 1, Len(sorted))

RECURSIVE SortByImbalance(_)
\* line 776: list.sort(key=imbalance, reverse=True), a stable sort
SortByImbalance(entries) ==
  IF entries = <<>> THEN <<>>
  ELSE InsertByImbalance(SortByImbalance(SubSeq(entries, 1, Len(entries) - 1)),
                         entries[Len(entries)])

\* line 779: imbalanced_channels[:3]
TopImbalanced(w) ==
  LET sorted == SortByImbalance(ScanNodes(w, Len(NODES)))
  IN SubSeq(sorted, 1, Min(3, Len(sorted)))

\* lines 788-797: local_pct > 50
NodePays(e) == 2 * e.local_balance > e.capacity

LegSender(e) == IF NodePays(e) THEN e.node ELSE e.remote_node

LegReceiver(e) == IF NodePays(e) THEN e.remote_node ELSE e.node

\* lines 800-802
RecoveryAmount(capacity) ==
  LET amount == (capacity * RECOVERY_REBALANCE_PCT) \div 100
  IN IF amount < 10000 THEN Min(10000, (capacity * 10) \div 100) ELSE amount

\* What one leg's commands answer: addinvoice ("none": no result,
\* "no_payment_request", "ok") and the payinvoice output.
LegOutcome(invoice, pay) == [invoice |-> invoice, pay |-> pay]

\* docker exec on the name "unknown" fails: no invoice from such a receiver,
\* no output from such a payer.
LegInvoice(e, o) == IF LegReceiver(e) \notin NodeSet THEN "none" ELSE o.invoice

LegPayOutput(e, o) == IF LegSender(e) \notin NodeSet THEN NoOutput ELSE o.pay

\* lines 815-823: the invoice is usable
LegInvoiced(e, o) == LegInvoice(e, o) = "ok"

\* lines 826-834
LegPaid(e, o) == LegInvoiced(e, o) /\ PaymentSucceeded(pay_invoice(LegPayOutput(e, o)))

\* lines 849-863: "success": rebalance_success, the flag of the whole call
RebalanceEvent(e, rebalance_success) ==
  Event("rebalance", LegSender(e), LegReceiver(e), RecoveryAmount(e.capacity),
        IntFee(0), 1, rebalance_success, PlainDescription)

RECURSIVE RunLegs(_, _, _)
\* lines 779-871 for the first k legs: the flag, the success count and the
\* rows logged so far
RunLegs(legs, outs, k) ==
  IF k = 0 THEN [rebalance_success |-> FALSE, successes |-> 0, events |-> <<>>]
  ELSE LET prev == RunLegs(legs, outs, k - 1)
           flag == prev.rebalance_success \/ LegPaid(legs[k], outs[k])
       IN IF ~LegInvoiced(legs[k], outs[k]) THEN prev
          ELSE [rebalance_success |-> flag,
                successes |-> prev.successes + (IF LegPaid(legs[k], outs[k]) THEN 1 ELSE 0),
                events |-> Append(prev.events, RebalanceEvent(legs[k], flag))]

\* The whole call on a world whose scan does not raise, with the legs whose
\* payment succeeded.
targeted_rebalance(w, outs) ==
  LET legs == TopImbalanced(w)
      r == RunLegs(legs, outs, Len(legs))
  IN [rebalance_success |-> r.rebalance_success, successes |-> r.successes,
      events |-> r.events,
      paid |-> [k \in 1..Len(legs) |-> LegPaid(legs[k], outs[k])]]

\* lines 1033, 1036: the counter after the recovery attempt
RecoveryCountNoFloor(cf, recovered) == IF recovered THEN 0 ELSE cf - 2

RecoveryCount(cf, recovered) == IF recovered THEN 0 ELSE Max(0, cf - 2)

(***************************************************************************)
(* Periodic rebalancer: rebalance_channels (lines 464-544)                 *)
(***************************************************************************)
\* lines 474-476
PairSender(i) == NODES[i]

PairReceiver(i) == NODES[(i % Len(NODES)) + 1]

\* lines 496-500: the first channel of the sender to the receiver's pubkey
PairChannels(w, i) ==
  LET l == get_node_channels(w, PairSender(i))
  IN {j \in 1..Len(l.channels) :
        l.channels[j].remote_pubkey = get_node_pubkey(w, PairReceiver(i))}

PairChannel(w, i) ==
  LET l == get_node_channels(w, PairSender(i))
  IN l.channels[CHOOSE j \in PairChannels(w, i) : \A k \in PairChannels(w, i) : j <= k]

\* lines 482-513: the pair gets as far as the invoice
PairEligible(w, i) ==
  /\ get_node_channels(w, PairSender(i)).ok
  /\ get_node_pubkey(w, PairReceiver(i)) # None
  /\ PairChannels(w, i) # {}
  /\ ~(10 * PairChannel(w, i).local_balance < 6 * PairChannel(w, i).capacity)

\* line 516
PeriodicAmount(capacity) == Min(5000, (capacity * 10) \div 100)

\* lines 519-538
PairPaid(w, outs, i) ==
  /\ PairEligible(w, i)
  /\ outs[i].invoice = "ok"
  /\ PaymentSucceeded(pay_invoice(outs[i].pay))

\* lines 470, 538: the statistics after the call
RebalanceClearingFailures(st, w, outs) ==
  LET paid == Cardinality({i \in 1..Len(NODES) : PairPaid(w, outs, i)})
  IN [st EXCEPT !.rebalance_operations = @ + 1,
                !.rebalance_successes = @ + paid,
                !.consecutive_failures = IF paid > 0 THEN 0 ELSE @]

rebalance_channels(st, w, outs) ==
  [st EXCEPT !.rebalance_operations = @ + 1,
             !.rebalance_successes =
                @ + Cardinality({i \in 1..Len(NODES) : PairPaid(w, outs, i)})]

(***************************************************************************)
(* Inputs of the control loop: the worlds the nodes may show, the draws of *)
(* the random module and the answers of addinvoice and payinvoice.         *)
(***************************************************************************)
World(channels, info) == [channels |-> channels, info |-> info]

AllInfo == [n \in NodeSet |-> n]

NoInfo == [n \in NodeSet |-> None]

\* A triangle of channels at 90/10, 50/50 and 70/30.
TriangleWorld ==
  World([n \in NodeSet |->
           CASE n = NODES[1] -> Listing(<<Chan(NODES[2], 10000, 9000), Chan(NODES[3], 10000, 5000)>>)
             [] n = NODES[2] -> Listing(<<Chan(NODES[1], 10000, 1000), Chan(NODES[3], 10000, 7000)>>)
             [] OTHER        -> Listing(<<Chan(NODES[1], 10000, 5000), Chan(NODES[2], 10000, 3000)>>)],
        AllInfo)

\* One drained channel; the third node does not answer.
DryWorld ==
  World([n \in NodeSet |->
           CASE n = NODES[1] -> Listing(<<Chan(NODES[2], 10000, 2000)>>)
             [] n = NODES[2] -> Listing(<<Chan(NODES[1], 10000, 8000)>>)
             [] OTHER        -> NoListing],
        [AllInfo EXCEPT ![NODES[3]] = None])

\* A channel that reports capacity 0 (the default of channel.get("capacity", 0)).
ZeroCapacityWorld ==
  World([n \in NodeSet |->
           CASE n = NODES[1] -> Listing(<<Chan(NODES[2], 0, 0)>>)
             [] OTHER        -> NoListing],
        AllInfo)

\* The first node answers listchannels with an empty list.
EmptyWorld ==
  World([n \in NodeSet |->
           CASE n = NODES[1] -> Listing(<<>>)
             [] OTHER        -> NoListing],
        AllInfo)

\* No node answers.
DownWorld == World([n \in NodeSet |-> NoListing], NoInfo)

\* The worlds simulate_transaction is run in.
PaymentWorlds == {TriangleWorld, DryWorld}

\* The worlds targeted_rebalance is run in.
RecoveryWorlds == {DryWorld, ZeroCapacityWorld, DownWorld}

\* The worlds rebalance_channels is run in.
RebalanceWorlds == {TriangleWorld, DownWorld}

\* The draws of random.choice(NODES) for the sender.
SenderSamples == {NODES[1]}

\* The draws of random.randint(MIN_PAYMENT_AMOUNT, MAX_PAYMENT_AMOUNT).
AmountSamples == {MAX_PAYMENT_AMOUNT}

InvoiceSamples == {"none", "no_payment_request", "ok"}

Succeeded(hasRoute, totalFees, hops, hasFee, fee) ==
  JsonOutput(PayDict(TRUE, FALSE, "SUCCEEDED", hasRoute, totalFees, hops, hasFee, fee))

PaySamples ==
  {NoOutput, GarbageOutput,
   JsonOutput(PayDict(FALSE, FALSE, "", FALSE, IntFee(0), 0, FALSE, IntFee(0))),
   JsonOutput(PayDict(TRUE, TRUE, "FAILED", FALSE, IntFee(0), 0, FALSE, IntFee(0))),
   JsonOutput(PayDict(TRUE, TRUE, "SUCCEEDED", FALSE, IntFee(0), 0, FALSE, IntFee(0))),
   JsonOutput(PayDict(TRUE, FALSE, "FAILED", FALSE, IntFee(0), 0, FALSE, IntFee(0))),
   Succeeded(TRUE, IntFee(7), 2, FALSE, IntFee(0)),
   Succeeded(TRUE, IntFee(0), 0, FALSE, IntFee(0)),
   Succeeded(FALSE, IntFee(0), 0, TRUE, BadFee)}

LegOutcomeSamples ==
  {LegOutcome("none", NoOutput),
   LegOutcome("ok", NoOutput),
   LegOutcome("ok", Succeeded(FALSE, IntFee(0), 0, FALSE, IntFee(0)))}

\* FAILURE_THRESHOLD and REBALANCE_FREQUENCY as configured together.
ConfigSamples == {<<1, 0>>, <<3, 2>>}

\* What simulate_transaction can return on these inputs.
TransactionSamples ==
  UNION {{simulate_transaction(c, invoice, output) :
            c \in Candidates(pattern, w, SenderSamples, AmountSamples),
            invoice \in InvoiceSamples, output \in PaySamples} :
          pattern \in PATTERNS, w \in PaymentWorlds}

\* What targeted_rebalance can return on these inputs.
RecoverySamples ==
  UNION {{targeted_rebalance(w, outs) :
            outs \in [1..Len(TopImbalanced(w)) -> LegOutcomeSamples]} :
          w \in {x \in RecoveryWorlds : ~ScanRaises(x)}}

\* Whether targeted_rebalance can raise on these inputs.
RecoveryCanRaise == \E w \in RecoveryWorlds : ScanRaises(w)

(***************************************************************************)
(* The WebSocket hub (scripts/websocket_server.py).  A message is the      *)
(* parsed JSON object: a function from the keys it has to their values.    *)
(***************************************************************************)
\* the number of transactions the hub keeps (lines 72-73)
TransactionsKept == 100

Has(data, key) == key \in DOMAIN data

\* the value of {} in data.get("data", {})
EmptyObject == [key \in {} |-> None]

Payload(k) == [id |-> k]

\* line 69: data.get("transaction", data.get("data", {}))
TransactionData(data) ==
  IF Has(data, "transaction") THEN data.transaction
  ELSE IF Has(data, "data") THEN data.data
  ELSE EmptyObject

\* lines 70-73, keeping the first entries instead of the last
RetainOldest(transactions, transaction_data) ==
  LET appended == Append(transactions, transaction_data)
  IN IF Len(appended) > TransactionsKept
     THEN SubSeq(appended, 1, TransactionsKept)
     ELSE appended

\* lines 70-73: append, then keep the last 100
Retain(transactions, transaction_data) ==
  LET appended == Append(transactions, transaction_data)
  IN IF Len(appended) > TransactionsKept
     THEN SubSeq(appended, Len(appended) - TransactionsKept + 1, Len(appended))
     ELSE appended

\* line 90: data.get("suggestion", data.get("data", {}))
SuggestionData(data) ==
  IF Has(data, "suggestion") THEN data.suggestion
  ELSE IF Has(data, "data") THEN data.data
  ELSE EmptyObject

\* lines 18-22
InitNetworkState ==
  [channels |-> EmptyObject, transactions |-> <<>>, last_update |-> <<>>]

\* lines 28-31 sending the channels alone
StateUpdateChannelsOnly(ns) == [type |-> "state_update", data |-> ns.channels]

\* lines 28-31: the frame register sends
StateUpdate(ns) == [type |-> "state_update", data |-> ns]

\* line 26
register(conns, websocket) == conns \cup {websocket}

\* line 35
unregister(conns, websocket) == conns \ {websocket}

Handled(ns, update, reply) == [network_state |-> ns, update |-> update, reply |-> reply]

\* lines 47-94: the state after the message, the frame it broadcasts and
\* the frame it answers to its sender (each <<>> when there is none)
handle_message(ns, data, now) ==
  IF ~Has(data, "type") THEN Handled(ns, <<>>, <<>>)
  ELSE IF data.type = "channel_update"
  THEN LET channels == IF Has(data, "channels") THEN data.channels
                       ELSE IF Has(data, "data") THEN data.data
                       ELSE ns.channels
       IN Handled([ns EXCEPT !.channels = channels, !.last_update = <<now>>],
                  <<[type |-> "channel_update", data |-> channels]>>, <<>>)
  ELSE IF data.type = "transaction"
  THEN Handled([ns EXCEPT !.transactions = Retain(@, TransactionData(data))],
               <<[type |-> "transaction", data |-> TransactionData(data)]>>, <<>>)
  ELSE IF data.type = "request_suggestions"
  THEN Handled(ns, <<>>, <<[type |-> "rebalance_suggestions", suggestions |-> <<>>]>>)
  ELSE IF data.type = "rebalance_suggestion"
  THEN Handled(ns, <<[type |-> "rebalance_suggestion", data |-> SuggestionData(data)]>>,
               <<>>)
  ELSE Handled(ns, <<>>, <<>>)

\* lines 40-42 as one send after the other, given up at the first failure
DeliveredUntilFailure(targets, links) ==
  {c \in targets : \A f \in targets : links[f] = "closed" => c < f}

\* lines 40-42: gather starts every send; the connections that take the frame
Delivered(targets, links) == {c \in targets : links[c] # "closed"}

\* lines 40-42: the sends that raise ConnectionClosed
Failed(targets, links) == {c \in targets : links[c] = "closed"}

\* The connections the hub accepts.
Clients == 1..3

\* The messages a client may send as the k-th message the hub handles.
HubMessages(k) ==
  {[type |-> "channel_update", channels |-> Payload(k)],
   [type |-> "transaction", transaction |-> Payload(k)],
   [type |-> "rebalance_suggestion", suggestion |-> Payload(k)],
   [type |-> "request_suggestions"],
   [data |-> Payload(k)]}

\* The shapes of the k-th transaction message.
TransactionMessages(k) ==
  {[type |-> "transaction", transaction |-> Payload(k)],
   [type |-> "transaction", data |-> Payload(k)],
   [type |-> "transaction", transaction |-> Payload(k), data |-> Payload(0)]}

(***************************************************************************)
(* State                                                                   *)
(***************************************************************************)
VARIABLES
  FAILURE_THRESHOLD,    \* configuration, line 30
  REBALANCE_FREQUENCY,  \* configuration, line 29
  stats,                \* the global stats dictionary
  pc,                   \* where main's loop stands
  iter,                 \* iterations started
  rebalance_count,      \* main's local, line 991
  transaction_count,    \* main's local, line 990
  transaction,          \* main's local until line 1022: <<>> for None, else <<event>>
  csvfile,              \* main's handle on the log
  disk,                 \* the log file's content
  emitted,              \* the number of event records produced so far
  out,                  \* the event records the latest step produced
  replayed,             \* the aggregate of replaying every emitted record
  snapshots,            \* snapshots taken
  lastOp,               \* the latest of: payment outcome, recovery attempt
  recovery,             \* the recovery attempt of this iteration
  caught,               \* the latest iteration ended in the except clause
  fnOp, fnArg, fnRes,   \* a function applied on its own: name, input, result
  connected,            \* the hub's set of registered connections, line 16
  network_state,        \* the hub's state, lines 18-22
  link,                 \* per connection: "idle", "open", "slow" (its peer does
                        \* not read yet: a send to it does not complete), "closed"
  handler,              \* per connection, its server coroutine: "none",
                        \* "registering", "reading", "ended", "crashed"
  waiting,              \* per connection, the sends its handler is awaiting
  sent,                 \* per connection, the frames handed to it, in order
  handled,              \* the messages the hub has handled
  broadcasts            \* the calls of broadcast_update so far

vars == <<FAILURE_THRESHOLD, REBALANCE_FREQUENCY, stats, pc, iter, rebalance_count,
          transaction_count, transaction, csvfile, disk, emitted, out, replayed,
          snapshots, lastOp, recovery, caught, fnOp, fnArg, fnRes, connected,
          network_state,
          link, handler, waiting, sent, handled, broadcasts>>

config == <<FAILURE_THRESHOLD, REBALANCE_FREQUENCY>>

fnVars == <<fnOp, fnArg, fnRes>>

hubVars == <<connected, network_state, link, handler, waiting, sent, handled, broadcasts>>

NoRecovery == [ran |-> FALSE, raised |-> FALSE, paid |-> <<>>, counter_before |-> 0]

\* The statistics an aggregator derives from one event record: a payment
\* by the rules of lines 392-406, a rebalance record as one auto-recovery
\* operation that succeeded when the record says so, a snapshot as nothing.
ReplayEvent(agg, ev) ==
  CASE ev.type = "payment" ->
         [PaymentStats(agg, ev.sender, ev.receiver, ev.amount, ev.fee, ev.success)
            EXCEPT !.consecutive_failures = 0]
    [] ev.type = "rebalance" ->
         [agg EXCEPT !.auto_rebalance_events = @ + 1,
                     !.auto_rebalance_successes = @ + (IF ev.success THEN 1 ELSE 0)]
    [] OTHER -> agg

RECURSIVE ReplayAll(_, _)
ReplayAll(agg, events) ==
  IF events = <<>> THEN agg
  ELSE ReplayAll(ReplayEvent(agg, Head(events)), Tail(events))

\* main up to the loop (lines 980-1001)
Init ==
  /\ \E cfg \in ConfigSamples :
       FAILURE_THRESHOLD = cfg[1] /\ REBALANCE_FREQUENCY = cfg[2]
  /\ stats = InitStats
  /\ pc = "top"
  /\ iter = 0
  /\ rebalance_count = 0
  /\ transaction_count = 0
  /\ transaction = <<>>
  /\ csvfile = OpenedLog
  /\ disk = <<>>
  /\ emitted = 0
  /\ out = <<>>
  /\ replayed = InitStats
  /\ snapshots = 0
  /\ lastOp = "none"
  /\ recovery = NoRecovery
  /\ caught = FALSE
  /\ fnOp = "none"
  /\ fnArg = <<>>
  /\ fnRes = <<>>
  /\ connected = {}
  /\ network_state = InitNetworkState
  /\ link = [c \in Clients |-> "idle"]
  /\ handler = [c \in Clients |-> "none"]
  /\ waiting = [c \in Clients |-> {}]
  /\ sent = [c \in Clients |-> <<>>]
  /\ handled = 0
  /\ broadcasts = <<>>

(***************************************************************************)
(* The control loop of main (lines 1003-1068)                              *)
(***************************************************************************)
\* The answers of the pairs' addinvoice and payinvoice calls.
PairOutcomes == [1..Len(NODES) -> LegOutcomeSamples]

\* lines 1006-1010 with REBALANCE_FREQUENCY > 0: the periodic rebalancer is due
RebalanceDue == REBALANCE_FREQUENCY > 0 /\ rebalance_count + 1 >= REBALANCE_FREQUENCY

\* The end of an iteration: its locals and records are dead, line 1013
\* assigns transaction before line 1016 reads it again.
EndIteration ==
  /\ transaction' = <<>>
  /\ out' = <<>>
  /\ recovery' = NoRecovery
  /\ pc' = "top"

\* line 1003 holds and lines 1006-1010 do not call the rebalancer
StartIteration ==
  /\ pc = "top"
  /\ iter < MaxIter
  /\ ~RebalanceDue
  /\ iter' = iter + 1
  /\ pc' = "simulate"
  /\ rebalance_count' = IF REBALANCE_FREQUENCY > 0 THEN rebalance_count + 1
                        ELSE rebalance_count
  /\ UNCHANGED <<config, stats, transaction_count, transaction, csvfile, disk,
                 emitted, out, replayed, snapshots, lastOp, recovery, fnVars, hubVars, caught>>

\* line 1003 holds and lines 1006-1010 call rebalance_channels
StartIterationRebalancing ==
  /\ pc = "top"
  /\ iter < MaxIter
  /\ RebalanceDue
  /\ \E w \in RebalanceWorlds, outs \in PairOutcomes :
       stats' = rebalance_channels(stats, w, outs)
  /\ iter' = iter + 1
  /\ pc' = "simulate"
  /\ rebalance_count' = 0
  /\ UNCHANGED <<config, transaction_count, transaction, csvfile, disk, emitted,
                 out, replayed, snapshots, lastOp, recovery, fnVars, hubVars, caught>>

\* What a payment leaves in lastOp.
PaymentOp(success, cf, threshold) ==
  IF success THEN "success"
  ELSE IF cf >= threshold THEN "breach"
  ELSE "failure"

\* lines 313-322: the statistics when simulate_transaction returns None
AbandonedStatsCounted(st) ==
  [st EXCEPT !.total_payments = @ + 1, !.failed_payments = @ + 1,
             !.consecutive_failures = @ + 1]

AbandonedStats(st) == st

\* line 1013: simulate_transaction (lines 274-446)
SimulateTransaction ==
  /\ pc = "simulate"
  /\ \E t \in TransactionSamples :
       /\ transaction' = t
       /\ out' = t
       /\ IF t = <<>>
          THEN \* lines 315-322: return None
               /\ stats' = AbandonedStats(stats)
               /\ UNCHANGED <<emitted, replayed, lastOp>>
          ELSE LET ev == t[1]
                   st == PaymentStats(stats, ev.sender, ev.receiver, ev.amount,
                                      ev.fee, ev.success)
               IN /\ stats' = st
                  /\ emitted' = emitted + 1
                  /\ replayed' = ReplayEvent(replayed, ev)
                  /\ lastOp' = PaymentOp(ev.success, st.consecutive_failures,
                                         FAILURE_THRESHOLD)
  /\ pc' = "process"
  /\ UNCHANGED <<config, iter, rebalance_count, transaction_count, csvfile, disk,
                 snapshots, recovery, fnVars, hubVars, caught>>

\* lines 1016 and 1022: the recovery branch is taken
NeedsRecoveryIfAbove(result, cf, threshold) == result # <<>> /\ cf > threshold

NeedsRecoveryAfterAny(result, cf, threshold) == result # <<>>

NeedsRecovery(result, cf, threshold) == result # <<>> /\ cf >= threshold

\* lines 1016-1022: log the event through main's handle, flush, count
ProcessResult ==
  /\ pc = "process"
  /\ IF transaction # <<>>
     THEN /\ disk' = FlushedDisk(BufferRow(csvfile, emitted), disk)
          /\ csvfile' = FlushedHandle(BufferRow(csvfile, emitted))
          /\ transaction_count' = transaction_count + 1
     ELSE UNCHANGED <<disk, csvfile, transaction_count>>
  /\ pc' = IF NeedsRecovery(transaction, stats.consecutive_failures, FAILURE_THRESHOLD)
           THEN "recover" ELSE "snapshot"
  /\ transaction' = <<>>
  /\ out' = <<>>
  /\ UNCHANGED <<config, stats, iter, rebalance_count, emitted, replayed, snapshots,
                 lastOp, recovery, fnVars, hubVars, caught>>

\* The places in the emitted stream of n further records.
NextRows(n) == [i \in 1..n |-> emitted + i]

\* lines 1028-1042 when targeted_rebalance returns
Recover ==
  /\ pc = "recover"
  /\ \E r \in RecoverySamples :
       /\ stats' = [stats EXCEPT
                      !.auto_rebalance_events = @ + 1,
                      !.auto_rebalance_successes = @ + r.successes,
                      !.consecutive_failures = RecoveryCount(@, r.rebalance_success)]
       /\ emitted' = emitted + Len(r.events)
       /\ out' = r.events
       /\ replayed' = ReplayAll(replayed, r.events)
       /\ disk' = AppendRows(disk, NextRows(Len(r.events)))
       /\ recovery' = [ran |-> TRUE, raised |-> FALSE, paid |-> r.paid,
                       counter_before |-> stats.consecutive_failures]
  /\ lastOp' = "recovery"
  /\ pc' = "snapshot"
  /\ UNCHANGED <<config, iter, rebalance_count, transaction_count, transaction,
                 csvfile, snapshots, fnVars, hubVars, caught>>

\* lines 1028-1031 when targeted_rebalance raises at line 752
RecoverRaises ==
  /\ pc = "recover"
  /\ RecoveryCanRaise
  /\ recovery' = [ran |-> TRUE, raised |-> TRUE, paid |-> <<>>,
                  counter_before |-> stats.consecutive_failures]
  /\ stats' = [stats EXCEPT !.auto_rebalance_events = @ + 1]
  /\ out' = <<>>
  /\ lastOp' = "recovery"
  /\ pc' = "except"
  /\ UNCHANGED <<config, iter, rebalance_count, transaction_count, transaction,
                 csvfile, disk, emitted, replayed, snapshots, fnVars, hubVars, caught>>

\* lines 1045-1046 when the snapshot interval has not passed
SkipSnapshot ==
  /\ pc = "snapshot"
  /\ out' = <<>>
  /\ pc' = "housekeeping"
  /\ UNCHANGED <<config, stats, iter, rebalance_count, transaction_count,
                 transaction, csvfile, disk, emitted, replayed, snapshots, lastOp,
                 recovery, fnVars, hubVars, caught>>

\* The statistics after log_channel_snapshot (lines 876-904): untouched.
SnapshotStatsCounted(st) == [st EXCEPT !.total_payments = @ + 1]

SnapshotStats(st) == st

\* lines 1046-1048: log_channel_snapshot (lines 876-904)
LogChannelSnapshot ==
  /\ pc = "snapshot"
  /\ snapshots < MaxSnapshots
  /\ snapshots' = snapshots + 1
  /\ emitted' = emitted + 1
  /\ out' = <<SnapshotEvent>>
  /\ replayed' = ReplayEvent(replayed, SnapshotEvent)
  /\ disk' = AppendRows(disk, NextRows(1))
  /\ stats' = SnapshotStats(stats)
  /\ pc' = "housekeeping"
  /\ UNCHANGED <<config, iter, rebalance_count, transaction_count, transaction,
                 csvfile, lastOp, recovery, fnVars, hubVars, caught>>

\* lines 1050-1065: print_statistics, check_for_rebalance_suggestions, sleep
Housekeeping ==
  /\ pc = "housekeeping"
  /\ EndIteration
  /\ caught' = FALSE
  /\ UNCHANGED <<config, stats, iter, rebalance_count, transaction_count, csvfile,
                 disk, emitted, replayed, snapshots, lastOp, fnVars, hubVars>>

\* lines 1066-1068 without the except clause: the exception leaves main
UncaughtException(at) == "done"

\* lines 1066-1068: except Exception catches what the body raised, and
\* control is back at the test of line 1003
CaughtException(at) == "top"

\* lines 1006-1009: rebalance_channels is due and raises while it reads a
\* node's answer (json.loads at lines 114, 122, 130); line 470 has counted
\* the operation and line 1010 is not reached
StartIterationRaises ==
  /\ pc = "top"
  /\ iter < MaxIter
  /\ RebalanceDue
  /\ stats' = [stats EXCEPT !.rebalance_operations = @ + 1]
  /\ iter' = iter + 1
  /\ rebalance_count' = rebalance_count + 1
  /\ pc' = "except"
  /\ UNCHANGED <<config, transaction_count, transaction, csvfile, disk, emitted,
                 out, replayed, snapshots, lastOp, recovery, fnVars, hubVars, caught>>

\* line 1013: simulate_transaction raises while it selects the nodes or
\* checks the feasibility (json.loads at lines 114, 122)
SimulateRaises ==
  /\ pc = "simulate"
  /\ pc' = "except"
  /\ UNCHANGED <<config, stats, iter, rebalance_count, transaction_count,
                 transaction, csvfile, disk, emitted, out, replayed, snapshots,
                 lastOp, recovery, fnVars, hubVars, caught>>

\* line 1047: log_channel_snapshot raises when it opens the log (line 902)
SnapshotRaises ==
  /\ pc = "snapshot"
  /\ out' = <<>>
  /\ pc' = "except"
  /\ UNCHANGED <<config, stats, iter, rebalance_count, transaction_count,
                 transaction, csvfile, disk, emitted, replayed, snapshots, lastOp,
                 recovery, fnVars, hubVars, caught>>

\* lines 1066-1068: the except clause of the loop body
HandleException ==
  /\ pc = "except"
  /\ transaction' = <<>>
  /\ out' = <<>>
  /\ recovery' = NoRecovery
  /\ pc' = CaughtException(pc)
  /\ caught' = TRUE
  /\ UNCHANGED <<config, stats, iter, rebalance_count, transaction_count, csvfile,
                 disk, emitted, replayed, snapshots, lastOp, fnVars, hubVars>>

\* line 1003 fails: the with block ends and closes main's handle
Finish ==
  /\ pc = "top"
  /\ pc' = "done"
  /\ disk' = FlushedDisk(csvfile, disk)
  /\ csvfile' = FlushedHandle(csvfile)
  /\ UNCHANGED <<config, stats, iter, rebalance_count, transaction_count,
                 transaction, emitted, out, replayed, snapshots, lastOp, recovery,
                 fnVars, hubVars, caught>>

Next ==
  \/ StartIteration
  \/ StartIterationRebalancing
  \/ StartIterationRaises
  \/ SimulateTransaction
  \/ SimulateRaises
  \/ ProcessResult
  \/ Recover
  \/ RecoverRaises
  \/ SkipSnapshot
  \/ LogChannelSnapshot
  \/ SnapshotRaises
  \/ Housekeeping
  \/ HandleException
  \/ Finish

Spec == Init /\ [][Next]_vars

(***************************************************************************)
(* The functions on their own: one call on inputs drawn from bounded sets, *)
(* its input in fnArg and what it returns in fnRes.                        *)
(***************************************************************************)
\* What the functions leave alone: the state of main's loop.
loopVars == <<config, stats, pc, iter, rebalance_count, transaction_count,
              transaction, csvfile, disk, emitted, out, replayed, snapshots,
              lastOp, recovery, caught>>

\* The most channels the nodes list together.
MaxChannels == 4

\* local_balance / capacity * 100 of the listed channels.
PercentSamples == {10, 30, 50, 70, 90}

\* The capacity of the channels a node lists.
CapacityOf(node) == IF node = NODES[1] THEN 1000 ELSE 2000

\* The channel a node lists at pct percent local balance.
ChanAt(node, peer, pct) == Chan(peer, CapacityOf(node), (CapacityOf(node) * pct) \div 100)

\* The world in which the first node lists the first cut channels of pcts
\* and the second node the others.
ListedWorld(pcts, cut) ==
  World([n \in NodeSet |->
           CASE n = NODES[1] ->
                  Listing([i \in 1..cut |-> ChanAt(n, NODES[2], pcts[i])])
             [] n = NODES[2] ->
                  Listing([i \in 1..(Len(pcts) - cut) |-> ChanAt(n, NODES[1], pcts[cut + i])])
             [] OTHER -> NoListing],
        AllInfo)

\* lines 741-779 of targeted_rebalance: the scan, the sort and the cut
FnTopImbalanced ==
  /\ fnOp = "none"
  /\ \E n \in 0..MaxChannels :
       \E pcts \in [1..n -> PercentSamples], cut \in 0..n :
         LET w == ListedWorld(pcts, cut)
         IN /\ fnArg' = ScanNodes(w, Len(NODES))
            /\ fnRes' = TopImbalanced(w)
  /\ fnOp' = "TopImbalanced"
  /\ UNCHANGED <<config, stats, pc, iter, rebalance_count, transaction_count,
                 transaction, csvfile, disk, emitted, out, replayed, snapshots,
                 lastOp, recovery, caught, hubVars>>

\* lines 277-299 of simulate_transaction: the draw of the amount and the
\* adjustment loop
FnCandidates ==
  /\ fnOp = "none"
  /\ \E a \in MIN_PAYMENT_AMOUNT..MAX_PAYMENT_AMOUNT, pattern \in PATTERNS,
        w \in PaymentWorlds \cup {DownWorld} :
       \E c \in Candidates(pattern, w, SenderSamples, {a}) :
         /\ fnArg' = <<a>>
         /\ fnRes' = <<c>>
  /\ fnOp' = "Candidates"
  /\ UNCHANGED <<config, stats, pc, iter, rebalance_count, transaction_count,
                 transaction, csvfile, disk, emitted, out, replayed, snapshots,
                 lastOp, recovery, caught, hubVars>>

\* The worlds and amounts check_payment_feasibility is asked about.
FeasibilityWorlds == {TriangleWorld, DryWorld, EmptyWorld, DownWorld}

FeasibilityAmounts == {500, 3000, 6000, 9500}

\* lines 233-259: check_payment_feasibility
FnFeasibility ==
  /\ fnOp = "none"
  /\ \E w \in FeasibilityWorlds, sender \in NodeSet, receiver \in NodeSet,
        amount \in FeasibilityAmounts :
       /\ fnArg' = <<w, sender, receiver, amount>>
       /\ fnRes' = <<check_payment_feasibility(w, sender, receiver, amount)>>
  /\ fnOp' = "check_payment_feasibility"
  /\ UNCHANGED <<loopVars, hubVars>>

\* The "status" of a payinvoice answer; "absent" when it has none.
StatusSamples == {"SUCCEEDED", "FAILED", "IN_FLIGHT", "absent"}

\* What payinvoice can print: nothing, text that is no JSON, an empty JSON
\* object, or an object with or without an error and a status.
OutputSamples ==
  {NoOutput, GarbageOutput,
   JsonOutput(PayDict(FALSE, FALSE, "absent", FALSE, IntFee(0), 0, FALSE, IntFee(0)))}
  \cup {JsonOutput(PayDict(TRUE, err, status, FALSE, IntFee(0), 0, TRUE, IntFee(3))) :
          err \in BOOLEAN, status \in StatusSamples}

\* The consecutive-failure counter before the payment.
CounterSamples == 0..2

\* The pair and the amount of the payment that is classified.
ClassifiedCandidate ==
  Candidate(Selection(NODES[1], NODES[2], PlainDescription),
            MAX_PAYMENT_AMOUNT, MAX_PAYMENT_AMOUNT, 0)

\* lines 326-446 of simulate_transaction: the payment, its classification,
\* the counter and the event
FnClassify ==
  /\ fnOp = "none"
  /\ \E output \in OutputSamples, cf \in CounterSamples :
       LET ev == PaymentEvent(ClassifiedCandidate, pay_invoice(output))
           st == PaymentStats([InitStats EXCEPT !.consecutive_failures = cf],
                              ev.sender, ev.receiver, ev.amount, ev.fee, ev.success)
       IN /\ fnArg' = <<output, cf>>
          /\ fnRes' = <<ev, st.consecutive_failures>>
  /\ fnOp' = "classify"
  /\ UNCHANGED <<loopVars, hubVars>>

\* The capacities of the channels a targeted rebalance is asked to move.
CapacitySamples == {k * 2500 : k \in 0..24} \cup {9, 49999, 1000000}

\* lines 800-802 of targeted_rebalance: the amount to transfer
FnRecoveryAmount ==
  /\ fnOp = "none"
  /\ \E capacity \in CapacitySamples :
       /\ fnArg' = <<capacity>>
       /\ fnRes' = <<RecoveryAmount(capacity)>>
  /\ fnOp' = "RecoveryAmount"
  /\ UNCHANGED <<loopVars, hubVars>>

\* The transaction messages one hub is given in a row.
MaxReceived == 102

\* lines 67-73 of handle_message on the next transaction message: fnArg is
\* every payload received so far, fnRes is network_state["transactions"]
FnRetain ==
  /\ fnOp \in {"none", "Retain"}
  /\ Len(fnArg) < MaxReceived
  /\ \E data \in TransactionMessages(Len(fnArg) + 1) :
       /\ fnArg' = Append(fnArg, TransactionData(data))
       /\ fnRes' = Retain(fnRes, TransactionData(data))
  /\ fnOp' = "Retain"
  /\ UNCHANGED <<loopVars, hubVars>>

\* The world in which the first node lists one channel, to its successor.
OneChannelWorld(capacity, local_balance) ==
  World([n \in NodeSet |->
           CASE n = NODES[1] -> Listing(<<Chan(NODES[2], capacity, local_balance)>>)
             [] OTHER        -> NoListing],
        AllInfo)

\* lines 506-516 of rebalance_channels for the first pair: whether the
\* pair gets past the balance check, and the amount it would pay
FnPeriodicPair ==
  /\ fnOp = "none"
  /\ \E capacity \in {0, 1000, 10000, 40000, 50000, 60000},
        pct \in {0, 50, 59, 60, 61, 70, 100} :
       LET local_balance == (capacity * pct) \div 100
           w == OneChannelWorld(capacity, local_balance)
       IN /\ fnArg' = <<capacity, local_balance>>
          /\ fnRes' = <<PairEligible(w, 1), PeriodicAmount(capacity)>>
  /\ fnOp' = "rebalance_channels"
  /\ UNCHANGED <<loopVars, hubVars>>

\* lines 787-802 of targeted_rebalance for the one channel the first node
\* lists: who pays whom, and how much
FnRecoveryLeg ==
  /\ fnOp = "none"
  /\ \E capacity \in {10000, 40000, 50000, 100000},
        pct \in {0, 10, 30, 45, 50, 51, 55, 60, 70, 90, 100} :
       LET local_balance == (capacity * pct) \div 100
           w == OneChannelWorld(capacity, local_balance)
           leg == TopImbalanced(w)[1]
       IN /\ fnArg' = <<capacity, local_balance>>
          /\ fnRes' = <<LegSender(leg), LegReceiver(leg), RecoveryAmount(leg.capacity)>>
  /\ fnOp' = "targeted_rebalance"
  /\ UNCHANGED <<loopVars, hubVars>>

\* lines 277-326 of simulate_transaction: the candidate the adjustment
\* loop ends with, and what the call returns for it
FnAdjusted ==
  /\ fnOp = "none"
  /\ \E pattern \in PATTERNS,
        w \in FeasibilityWorlds \cup {[TriangleWorld EXCEPT !.info = NoInfo]},
        invoice \in InvoiceSamples, output \in PaySamples :
       \E c \in Candidates(pattern, w, SenderSamples, {MAX_PAYMENT_AMOUNT, 3000}) :
         /\ fnArg' = <<w, c, invoice, pattern>>
         /\ fnRes' = simulate_transaction(c, invoice, output)
  /\ fnOp' = "simulate_transaction"
  /\ UNCHANGED <<loopVars, hubVars>>

\* The answers of listchannels for the sender: none, an empty list, and one
\* or two channels to other nodes of NODES or to a peer outside NODES.
SelectListings(sender) ==
  LET peers == OthersThan(sender) \cup {"pk-ext"}
  IN {NoListing, Listing(<<>>)}
     \cup {Listing(<<Chan(p, 10000, 5000)>>) : p \in peers}
     \cup {Listing(<<Chan(p, 10000, 5000), Chan(q, 10000, 5000)>>) :
             <<p, q>> \in peers \X peers}

\* The world in which the sender's listchannels gives `listing` and getinfo
\* answers for the nodes of `answering` only.
SelectWorld(sender, listing, answering) ==
  World([n \in NodeSet |-> IF n = sender THEN listing ELSE NoListing],
        [n \in NodeSet |-> IF n \in answering THEN n ELSE None])

\* lines 165-231: select_nodes_for_pattern, for every first draw of the
\* sender and every answer of the channel and identity queries
FnSelect ==
  /\ fnOp = "none"
  /\ \E pattern \in PATTERNS, sender \in NodeSet, answering \in SUBSET NodeSet :
       \E listing \in SelectListings(sender) :
         LET w == SelectWorld(sender, listing, answering)
         IN \E sel \in select_nodes_for_pattern(pattern, w, {sender}) :
              /\ fnArg' = <<pattern, w, sender>>
              /\ fnRes' = <<sel>>
  /\ fnOp' = "select_nodes_for_pattern"
  /\ UNCHANGED <<loopVars, hubVars>>

NextFn ==
  \/ FnSelect
  \/ FnRetain
  \/ FnAdjusted
  \/ FnRecoveryLeg
  \/ FnPeriodicPair
  \/ FnTopImbalanced
  \/ FnCandidates
  \/ FnFeasibility
  \/ FnClassify
  \/ FnRecoveryAmount

\* The configuration of the source (lines 29-30); the functions do not read it.
InitFn == Init /\ FAILURE_THRESHOLD = 1

SpecFn == InitFn /\ [][NextFn]_vars

(***************************************************************************)
(* The hub: one server coroutine per connection (lines 102-109).  The      *)
(* coroutines run on one event loop and give way only at an await.  A send *)
(* hands its frame to the connection when it is called and completes when  *)
(* the connection has drained; a send on a closed connection raises.       *)
(***************************************************************************)
\* The messages the hub handles in a run.
MaxHandled == 2

\* lines 104, 24-31: a client connects; the send of the state completes,
\* awaits a peer that does not read, or raises because the peer is gone.
\* The connections are alike, so they are taken in the order of their names.
Connect ==
  /\ \E c \in Clients, state \in {"open", "slow", "closed"} :
       /\ link[c] = "idle"
       /\ \A b \in Clients : b < c => link[b] # "idle"
       /\ link' = [link EXCEPT ![c] = state]
       /\ connected' = register(connected, c)
       /\ sent' = [sent EXCEPT ![c] = IF state = "closed" THEN @
                                      ELSE Append(@, StateUpdate(network_state))]
       /\ handler' = [handler EXCEPT ![c] = IF state = "closed" THEN "crashed"
                                            ELSE IF state = "slow" THEN "registering"
                                            ELSE "reading"]
       /\ waiting' = [waiting EXCEPT ![c] = IF state = "slow" THEN {c} ELSE {}]
  /\ UNCHANGED <<network_state, handled, broadcasts, loopVars, fnVars>>

\* lines 106-107, 44-100: the handler of p reads p's next message and
\* handles it; an exception of a send is caught at line 98
HandleMessage ==
  /\ handled < MaxHandled
  /\ \E p \in Clients, data \in HubMessages(handled + 1) :
       LET h == handle_message(network_state, data, handled + 1)
           frame == h.update \o h.reply
           targets == IF Len(h.update) > 0 THEN connected
                      ELSE IF Len(h.reply) > 0 THEN {p}
                      ELSE {}
           failed == Failed(targets, link)
       IN /\ handler[p] = "reading"
          /\ waiting[p] = {}
          /\ link[p] # "closed"
          /\ network_state' = h.network_state
          /\ sent' = [c \in Clients |->
                        IF c \in Delivered(targets, link) THEN sent[c] \o frame
                        ELSE sent[c]]
          /\ waiting' = [waiting EXCEPT ![p] =
                           IF failed # {} THEN {}
                           ELSE {c \in targets : link[c] = "slow"}]
          /\ broadcasts' = IF Len(h.update) > 0
                           THEN Append(broadcasts,
                                       [publisher |-> p, frame |-> h.update[1],
                                        targets |-> targets, failed |-> failed])
                           ELSE broadcasts
  /\ handled' = handled + 1
  /\ UNCHANGED <<connected, link, handler, loopVars, fnVars>>

\* The peer of c starts to read: the sends to c complete, and a handler whose
\* gather (lines 40-42) or send (lines 28, 83) has nothing left resumes.
Resume ==
  /\ \E c \in Clients :
       /\ link[c] = "slow"
       /\ link' = [link EXCEPT ![c] = "open"]
       /\ waiting' = [p \in Clients |-> waiting[p] \ {c}]
       /\ handler' = [handler EXCEPT ![c] = IF @ = "registering" THEN "reading" ELSE @]
  /\ UNCHANGED <<connected, network_state, sent, handled, broadcasts, loopVars,
                 fnVars>>

\* The peer of c goes away: the sends to c raise.  A gather awaiting one of
\* them raises into handle_message, which catches it (line 98); the send of
\* register is outside the try of server (line 104), so its handler ends
\* without unregister.
Close ==
  /\ \E c \in Clients :
       /\ link[c] \in {"open", "slow"}
       /\ link' = [link EXCEPT ![c] = "closed"]
       /\ waiting' = [p \in Clients |-> IF c \in waiting[p] THEN {} ELSE waiting[p]]
       /\ handler' = [handler EXCEPT ![c] = IF @ = "registering" THEN "crashed" ELSE @]
  /\ UNCHANGED <<connected, network_state, sent, handled, broadcasts, loopVars,
                 fnVars>>

\* lines 106, 108-109: the handler of a closed connection leaves its loop
Unregister ==
  /\ \E c \in Clients :
       /\ handler[c] = "reading"
       /\ waiting[c] = {}
       /\ link[c] = "closed"
       /\ handler' = [handler EXCEPT ![c] = "ended"]
       /\ connected' = unregister(connected, c)
  /\ UNCHANGED <<network_state, link, waiting, sent, handled, broadcasts, loopVars,
                 fnVars>>

NextHub ==
  \/ Connect
  \/ HandleMessage
  \/ Resume
  \/ Close
  \/ Unregister

\* The simulator's configuration does not reach the hub.
InitHub == Init /\ FAILURE_THRESHOLD = 1

SpecHub == InitHub /\ [][NextHub]_vars

(***************************************************************************)
(* Properties                                                              *)
(***************************************************************************)
\* The step in which simulate_transaction executes a payment and returns
\* its event.
PaymentStep == pc = "simulate" /\ pc' = "process" /\ transaction' # <<>>

\* The step in which targeted_rebalance is called.
RecoveryStep == stats'.auto_rebalance_events # stats.auto_rebalance_events

\* The step in which targeted_rebalance returns to main.
RecoveryReturns == ~recovery.ran /\ recovery'.ran /\ ~recovery'.raised

\* The step in which log_channel_snapshot writes its event.
SnapshotStep == snapshots' # snapshots

\* C1: the consecutive-failure counter is never negative; a payment that is
\* classified as failed raises it by exactly 1 and a payment that is
\* classified as successful sets it to exactly 0.
C1_CounterFollowsPayments ==
  /\ [](stats.consecutive_failures >= 0)
  /\ [][PaymentStep =>
          IF transaction'[1].success
          THEN stats'.consecutive_failures = 0
          ELSE stats'.consecutive_failures = stats.consecutive_failures + 1]_vars

\* C1: a second failed payment in a row has raised the counter from 1 to 2.
C1_SecondFailureCounted ==
  /\ pc = "process"
  /\ transaction # <<>>
  /\ ~transaction[1].success
  /\ stats.consecutive_failures = 2

C3_RecoveryOnlyAfterBreach ==
  [][RecoveryStep =>
       /\ FAILURE_THRESHOLD >= 1
       /\ lastOp = "breach"
       /\ lastOp' = "recovery"
       /\ stats.consecutive_failures >= FAILURE_THRESHOLD
       /\ stats'.auto_rebalance_events = stats.auto_rebalance_events + 1]_vars

\* C3: a second recovery attempt has been made, after a second breach.
C3_SecondRecoveryAfterSecondBreach ==
  /\ recovery.ran
  /\ lastOp = "recovery"
  /\ stats.auto_rebalance_events = 2
  /\ stats.failed_payments = 2

\* C4: when targeted_rebalance returns, the counter is 0 if one of its
\* payments succeeded and max(0, counter - 2) otherwise, and the iteration
\* goes on to its snapshot and housekeeping steps.
C4_CounterAfterRecovery ==
  [][RecoveryReturns =>
       /\ stats'.consecutive_failures =
            IF \E k \in 1..Len(recovery'.paid) : recovery'.paid[k]
            THEN 0
            ELSE Max(0, stats.consecutive_failures - 2)
       /\ recovery'.counter_before = stats.consecutive_failures
       /\ pc' = "snapshot"]_vars

\* C4: a recovery attempt without a successful payment has taken the
\* counter from 3 to 1.
C4_FailedRecoveryFromThree ==
  /\ recovery.ran
  /\ ~recovery.raised
  /\ pc = "snapshot"
  /\ recovery.counter_before = 3
  /\ \A k \in 1..Len(recovery.paid) : ~recovery.paid[k]
  /\ stats.consecutive_failures = 1

\* local_balance / capacity * 100 of an entry of the scan
LocalPct(e) == (100 * e.local_balance) \div e.capacity

\* C5: the channels a targeted rebalance processes are at most 3, taken
\* from all channels of all nodes, in descending order of imbalance with
\* equal imbalances in discovery order, and no channel left out precedes a
\* processed one in that order; local% = [90, 50, 10, 70] gives
\* [90, 10, 70].
C5_TopThreeByImbalance ==
  fnOp = "TopImbalanced" =>
    LET all == fnArg
        top == fnRes
        Before(i, j) == \/ LessImbalanced(all[j], all[i])
                        \/ ~LessImbalanced(all[i], all[j]) /\ i < j
    IN /\ Len(top) = Min(3, Len(all))
       /\ \E idx \in [1..Len(top) -> 1..Len(all)] :
            /\ \A k \in 1..Len(top) : top[k] = all[idx[k]]
            /\ \A k, l \in 1..Len(top) : k < l => Before(idx[k], idx[l])
            /\ \A j \in 1..Len(all) :
                 (\A k \in 1..Len(top) : idx[k] # j) =>
                   \A k \in 1..Len(top) : Before(idx[k], j)
       /\ ([i \in 1..Len(all) |-> LocalPct(all[i])] = <<90, 50, 10, 70>>
             => [k \in 1..Len(top) |-> LocalPct(top[k])] = <<90, 10, 70>>)

\* C5: the channels at 90, 50, 10 and 70 percent, listed by two nodes, have
\* been cut to those at 90, 10 and 70 percent.
C5_NinetyTenSeventy ==
  /\ fnOp = "TopImbalanced"
  /\ [i \in 1..Len(fnArg) |-> LocalPct(fnArg[i])] = <<90, 50, 10, 70>>
  /\ [k \in 1..Len(fnRes) |-> LocalPct(fnRes[k])] = <<90, 10, 70>>
  /\ fnArg[1].node # fnArg[4].node

\* The file as it stands when main has nothing left to write: the header
\* row and every emitted record, in emission order.
WholeLog == [i \in 1..(emitted + 1) |-> i - 1]

\* C6: no written record is lost: whenever main has written what it holds,
\* the file is the header row followed by every emitted record in emission
\* order.
C6_LogKeepsEveryRecord ==
  (csvfile.buffer = <<>> /\ pc # "process") => disk = WholeLog

\* The counters of the statistics an event stream can account for.
Counters(st) == [st EXCEPT !.consecutive_failures = 0]

\* C7: the statistics counters equal the replay of the emitted event stream.
C7_StatsEqualReplay == Counters(stats) = Counters(replayed)

\* C8: a successful payment of amount a with fee f from S to R adds 1 to
\* total_payments and successful_payments, a to total_amount, f to
\* total_fees (nothing when the fee is not an integer), a to S.sent and to
\* R.received and leaves every other per-node total; a failed payment adds 1
\* to total_payments and failed_payments and leaves the amounts, the fees
\* and the per-node totals.
C8_PaymentDeltas ==
  [][PaymentStep =>
       LET ev == transaction'[1]
           a == ev.amount
           f == IF ev.fee.int THEN ev.fee.val ELSE 0
       IN /\ stats'.total_payments = stats.total_payments + 1
          /\ IF ev.success
             THEN /\ stats'.successful_payments = stats.successful_payments + 1
                  /\ stats'.failed_payments = stats.failed_payments
                  /\ stats'.total_amount = stats.total_amount + a
                  /\ stats'.total_fees = stats.total_fees + f
                  /\ ev.sender # ev.receiver
                  /\ \A n \in NodeSet :
                       /\ stats'.node_payments[n].sent =
                            stats.node_payments[n].sent + (IF n = ev.sender THEN a ELSE 0)
                       /\ stats'.node_payments[n].received =
                            stats.node_payments[n].received
                              + (IF n = ev.receiver THEN a ELSE 0)
             ELSE /\ stats'.failed_payments = stats.failed_payments + 1
                  /\ stats'.successful_payments = stats.successful_payments
                  /\ stats'.total_amount = stats.total_amount
                  /\ stats'.total_fees = stats.total_fees
                  /\ stats'.node_payments = stats.node_payments]_vars

\* C8: a second successful payment with a fee of 7 has been counted.
C8_SecondPaidWithFee ==
  /\ pc = "process"
  /\ transaction # <<>>
  /\ transaction[1].success
  /\ transaction[1].fee = IntFee(7)
  /\ stats.successful_payments = 2
  /\ stats.total_fees = 14

\* C9: writing a snapshot event leaves every statistics counter and the
\* consecutive-failure counter as they were.
C9_SnapshotLeavesStats ==
  [][SnapshotStep => out' = <<SnapshotEvent>> /\ stats' = stats]_vars

\* C9: a snapshot has been written while the counters were not at their
\* initial values.
C9_SnapshotAfterTraffic ==
  /\ out = <<SnapshotEvent>>
  /\ snapshots = 1
  /\ stats.consecutive_failures = 1
  /\ stats.successful_payments = 1

\* C10: the generated amount lies in [MIN_PAYMENT_AMOUNT,
\* MAX_PAYMENT_AMOUNT] and the amount handed to the payment, after the
\* reductions of the adjustment loop, is at least MIN_PAYMENT_AMOUNT and at
\* most the generated amount.
C10_AmountWithinBounds ==
  fnOp = "Candidates" =>
    /\ fnRes[1].generated = fnArg[1]
    /\ MIN_PAYMENT_AMOUNT <= fnRes[1].generated
    /\ fnRes[1].generated <= MAX_PAYMENT_AMOUNT
    /\ MIN_PAYMENT_AMOUNT <= fnRes[1].amount
    /\ fnRes[1].amount <= fnRes[1].generated

\* C10: three reductions have taken a generated amount of 1900 to the
\* minimum.
C10_ReducedToMinimum ==
  /\ fnOp = "Candidates"
  /\ fnRes[1].generated = 1900
  /\ fnRes[1].attempts = 3
  /\ fnRes[1].amount = MIN_PAYMENT_AMOUNT

\* C11: check_payment_feasibility is false when the sender's channel data
\* is unavailable or empty; otherwise it is true if a channel whose
\* counterparty resolves to the receiver has local balance >= amount, else
\* true if any channel of the sender has local balance >= amount, else false.
C11_FeasibilityRule ==
  fnOp = "check_payment_feasibility" =>
    LET w == fnArg[1]
        sender == fnArg[2]
        receiver == fnArg[3]
        amount == fnArg[4]
        listing == w.channels[sender]
        chans == {listing.channels[i] : i \in 1..Len(listing.channels)}
        ToReceiver(ch) == w.info[receiver] # None
                          /\ ch.remote_pubkey = w.info[receiver]
        expected ==
          IF ~listing.ok \/ chans = {} THEN FALSE
          ELSE IF \E ch \in chans : ToReceiver(ch) /\ ch.local_balance >= amount
               THEN TRUE
          ELSE IF \E ch \in chans : ch.local_balance >= amount THEN TRUE
          ELSE FALSE
    IN fnRes = <<expected>>

\* C11: a payment of 6000 to a receiver whose own channel holds 5000 is
\* found feasible because another channel of the sender holds 9000.
C11_LenientAllowance ==
  /\ fnOp = "check_payment_feasibility"
  /\ fnArg = <<TriangleWorld, NODES[1], NODES[3], 6000>>
  /\ fnRes = <<TRUE>>

\* C12: a payment is a success exactly when payinvoice answered with a
\* JSON object whose status is SUCCEEDED and that has no non-empty
\* payment_error; every other answer (an error, another or no status, no
\* JSON, no output) gives an event with success = FALSE and raises the
\* consecutive-failure counter by 1.
C12_SuccessIffSucceeded ==
  fnOp = "classify" =>
    LET output == fnArg[1]
        cf == fnArg[2]
        ev == fnRes[1]
        succeeded == /\ output.kind = "json"
                     /\ output.json.truthy
                     /\ output.json.status = "SUCCEEDED"
                     /\ ~output.json.payment_error
    IN /\ ev.type = "payment"
       /\ ev.success = succeeded
       /\ succeeded => fnRes[2] = 0
       /\ ~succeeded => fnRes[2] = cf + 1

\* C12: an answer with status SUCCEEDED and a payment_error has been
\* classified as a failure, the second in a row.
C12_ErrorBeatsStatus ==
  /\ fnOp = "classify"
  /\ fnArg[1].kind = "json"
  /\ fnArg[1].json.status = "SUCCEEDED"
  /\ fnArg[1].json.payment_error
  /\ fnArg[2] = 1
  /\ ~fnRes[1].success
  /\ fnRes[2] = 2

\* C13: when addinvoice gives no result or no payment request, the
\* attempt returns no event whatever payinvoice would have answered, the
\* statistics and the consecutive-failure counter stay as they are, and
\* main writes nothing to the log, counts no transaction and starts no
\* recovery.
C13_AbandonedAttemptLeavesNoTrace ==
  /\ [](\A invoice \in InvoiceSamples \ {"ok"}, output \in PaySamples :
          simulate_transaction(ClassifiedCandidate, invoice, output) = <<>>)
  /\ [][(pc = "simulate" /\ pc' = "process" /\ transaction' = <<>>) =>
          /\ stats' = stats
          /\ emitted' = emitted
          /\ out' = <<>>
          /\ disk' = disk
          /\ csvfile' = csvfile]_vars
  /\ [][(pc = "process" /\ transaction = <<>>) =>
          /\ stats' = stats
          /\ emitted' = emitted
          /\ disk' = disk
          /\ csvfile' = csvfile
          /\ transaction_count' = transaction_count
          /\ pc' = "snapshot"]_vars

\* C13: an attempt has been abandoned after a failed payment had raised the
\* counter to 1, and the counter is still 1.
C13_AbandonedAfterFailure ==
  /\ pc = "process"
  /\ transaction = <<>>
  /\ iter = 2
  /\ stats.failed_payments = 1
  /\ stats.total_payments = 1
  /\ stats.consecutive_failures = 1

\* C14: the consecutive-failure counter rises only in the step of a failed
\* payment and falls only in the step of a successful payment or of a
\* returning recovery attempt; the periodic rebalancer, whatever its
\* payments answer, and the housekeeping step with its suggestion query
\* leave it as it is.
C14_CounterMovers ==
  [][/\ stats'.consecutive_failures > stats.consecutive_failures =>
          PaymentStep /\ ~transaction'[1].success
     /\ stats'.consecutive_failures < stats.consecutive_failures =>
          \/ PaymentStep /\ transaction'[1].success
          \/ RecoveryReturns
     /\ stats'.rebalance_operations # stats.rebalance_operations =>
          stats'.consecutive_failures = stats.consecutive_failures
     /\ pc = "housekeeping" =>
          stats'.consecutive_failures = stats.consecutive_failures]_vars

\* C14: the periodic rebalancer has made a successful payment while the
\* counter stood at 1, and the counter is still 1.
C14_RebalancedWhileFailing ==
  /\ pc = "simulate"
  /\ stats.rebalance_operations = 1
  /\ stats.rebalance_successes >= 1
  /\ stats.consecutive_failures = 1

\* C15: the amount a targeted rebalance transfers over a channel is never
\* smaller than floor(capacity * 0.2).
C15_AmountNeverBelowFifth ==
  fnOp = "RecoveryAmount" =>
    fnRes[1] >= (fnArg[1] * RECOVERY_REBALANCE_PCT) \div 100

\* C16: when a targeted rebalance returns, every selected channel has
\* produced exactly one rebalance record, whatever failed for it.
C16_EveryLegLogged ==
  (pc = "snapshot" /\ recovery.ran /\ ~recovery.raised) =>
    /\ Len(out) = Len(recovery.paid)
    /\ \A k \in 1..Len(out) : out[k].type = "rebalance"

\* C17: after any number of transaction messages the hub's transactions
\* list has at most 100 entries and is the last min(n, 100) payloads
\* received, in arrival order.
C17_LastHundredInOrder ==
  fnOp = "Retain" =>
    LET n == Len(fnArg)
        kept == Min(n, 100)
    IN /\ Len(fnRes) <= 100
       /\ fnRes = SubSeq(fnArg, n - kept + 1, n)

\* C17 happens: more than 100 payloads arrived and the oldest is gone.
C17_OlderThanHundredDropped ==
  /\ fnOp = "Retain"
  /\ Len(fnArg) > 100
  /\ Len(fnRes) = 100
  /\ fnRes[1] = fnArg[Len(fnArg) - 99]
  /\ fnRes[1] # fnArg[1]

\* The step in which a broadcast is made while the send to one of the
\* registered connections raises.
BroadcastFails ==
  /\ Len(broadcasts') = Len(broadcasts) + 1
  /\ broadcasts'[Len(broadcasts')].failed # {}

\* C18: when the send of a broadcast to one subscriber fails, every other
\* connected subscriber is still handed the frame, and the publisher's
\* handler is not ended: it is back at reading the publisher's messages.
C18_FailureIsolated ==
  [][BroadcastFails =>
       LET b == broadcasts'[Len(broadcasts')]
       IN /\ \A c \in connected :
               link[c] # "closed" => sent'[c] = Append(sent[c], b.frame)
          /\ handler'[b.publisher] = "reading"
          /\ waiting'[b.publisher] = {}]_vars

\* C18 happens: the first broadcast of a publisher failed for one
\* connection, a third connection has been handed its frame, and the same
\* publisher's next message has been broadcast too.
C18_PublisherGoesOn ==
  /\ Len(broadcasts) >= 2
  /\ broadcasts[1].failed # {}
  /\ broadcasts[2].publisher = broadcasts[1].publisher
  /\ \E c \in broadcasts[1].targets \ (broadcasts[1].failed \cup {broadcasts[1].publisher}) :
       /\ Len(sent[c]) >= 3
       /\ sent[c][2] = broadcasts[1].frame
       /\ sent[c][3] = broadcasts[2].frame

\* C19: no handler is held in handle_message by the incomplete send to
\* another subscriber.
C19_NoHandlerHeldBySubscriber ==
  \A p \in Clients : waiting[p] \subseteq {p}

\* The step in which connection c is registered and its state_update is sent.
Registers(c) == handler[c] = "none" /\ handler'[c] \in {"registering", "reading"}

\* C20: every subscriber is sent exactly one state_update, with the whole
\* network state of that moment, and it is the first frame the subscriber
\* is sent, whatever connections and publishes interleave.
C20_StateUpdateFirstAndOnce ==
  /\ [](\A c \in Clients :
          /\ handler[c] \in {"registering", "reading", "ended"} => Len(sent[c]) >= 1
          /\ Len(sent[c]) >= 1 => sent[c][1].type = "state_update"
          /\ \A k \in 2..Len(sent[c]) : sent[c][k].type # "state_update")
  /\ [][\A c \in Clients :
          Registers(c) =>
            sent'[c] = <<[type |-> "state_update", data |-> network_state]>>]_vars

\* C20 happens: a connection registered after a transaction was published,
\* so its state_update carries it, and while its handler still awaits the
\* send of the state_update a broadcast was queued behind it.
C20_BroadcastWhileRegistering ==
  \E c \in Clients :
    /\ handler[c] = "registering"
    /\ Len(sent[c]) >= 2
    /\ Len(sent[c][1].data.transactions) >= 1
    /\ sent[c][2].type \in {"channel_update", "transaction", "rebalance_suggestion"}

\* C21: an exception raised inside an iteration is caught: from the except
\* clause control goes back to the loop's test with the iteration count
\* kept, and main ends only at that test, never out of an exception.
C21_ExceptionsAreCaught ==
  [][/\ pc = "except" => (pc' = "top" /\ iter' = iter /\ caught')
     /\ pc' = "done" => pc = "top"]_vars

\* C21 happens: an exception has been caught and a later iteration is
\* attempting its payment.
C21_IterationAfterException ==
  /\ caught
  /\ pc = "simulate"
  /\ iter >= 2

\* C22: targeted_rebalance returns an outcome whatever the nodes list,
\* a channel of capacity 0 included: it never raises.
C22_RecoveryAlwaysReturns ==
  recovery.ran => ~recovery.raised

\* C23: the periodic rebalancer pays over a pair's channel only when the
\* sender's local balance is strictly more than 60% of the capacity, and
\* then min(5000, floor(capacity * 0.1)).
C23_PaysOnlyAboveSixtyPercent ==
  fnOp = "rebalance_channels" =>
    /\ fnRes[1] => 100 * fnArg[2] > 60 * fnArg[1]
    /\ fnRes[2] = Min(5000, fnArg[1] \div 10)

\* C24: with REBALANCE_FREQUENCY = N > 0 the k-th run of the periodic
\* rebalancer comes after k*N generated transactions, and with N = 0 the
\* rebalancer never runs.
C24_RunsEveryNTransactions ==
  /\ REBALANCE_FREQUENCY > 0 =>
       stats.rebalance_operations * REBALANCE_FREQUENCY <= transaction_count
  /\ REBALANCE_FREQUENCY = 0 => stats.rebalance_operations = 0

\* C25: every record handed to the log, of a payment, a rebalance or a
\* snapshot, has amount > 0, a fee >= 0 and route_length >= 1.
C25_RecordsInRange ==
  \A k \in 1..Len(out) :
    /\ out[k].amount > 0
    /\ out[k].fee.int => out[k].fee.val >= 0
    /\ out[k].route_length >= 1

\* C26: when a targeted rebalance returns, its records say success = true
\* for exactly the legs whose own payment succeeded.
C26_SuccessIsTheLegsOwn ==
  (pc = "snapshot" /\ recovery.ran /\ ~recovery.raised) =>
    Cardinality({k \in 1..Len(out) : out[k].success})
      = Cardinality({k \in 1..Len(recovery.paid) : recovery.paid[k]})

\* C27: in a targeted rebalance the listing node pays when its local share
\* is above 50% and the counterparty pays otherwise, and the amount keeps
\* the channel within the target: paying out of a share above 50% does not
\* leave less than 40% local, paying into a share of at most 50% does not
\* leave more than 60% local.
C27_TransferKeepsFloorAndCeiling ==
  fnOp = "targeted_rebalance" =>
    LET capacity == fnArg[1]
        local_balance == fnArg[2]
        amount == fnRes[3]
    IN IF 2 * local_balance > capacity
       THEN /\ fnRes[1] = NODES[1] /\ fnRes[2] = NODES[2]
            /\ 100 * (local_balance - amount) >= 40 * capacity
       ELSE /\ fnRes[1] = NODES[2] /\ fnRes[2] = NODES[1]
            /\ 100 * (local_balance + amount) <= 60 * capacity

\* C28: the adjustment loop makes at most 3 adjustments, each a halving or
\* a reselection and the third a halving; it stops earlier only on a
\* feasible candidate; and once the invoice is there the payment is made
\* with the last candidate, feasible or not.
C28_LoopBoundedThenPays ==
  fnOp = "simulate_transaction" =>
    LET w == fnArg[1]
        c == fnArg[2]
    IN /\ c.attempts \in 0..3
       /\ c.attempts = 0 => c.last = "none"
       /\ c.attempts > 0 => c.last \in {"halve", "reselect"}
       /\ c.attempts = 3 => c.last = "halve"
       /\ c.attempts < 3 => check_payment_feasibility(w, c.sender, c.receiver, c.amount)
       /\ fnArg[3] = "ok" =>
            /\ Len(fnRes) = 1
            /\ fnRes[1].sender = c.sender
            /\ fnRes[1].receiver = c.receiver
            /\ fnRes[1].amount = c.amount

\* C28 happens: after three adjustments the candidate is still infeasible
\* and its payment has been made.
C28_InfeasibleCandidatePaid ==
  /\ fnOp = "simulate_transaction"
  /\ fnArg[2].attempts = 3
  /\ ~check_payment_feasibility(fnArg[1], fnArg[2].sender, fnArg[2].receiver,
                                fnArg[2].amount)
  /\ Len(fnRes) = 1
  /\ fnRes[1].amount = fnArg[2].amount

\* The configured nodes the sender's listed channels lead to in world w.
ResolvedPeers(w, sender) ==
  {n \in NodeSet :
     /\ w.channels[sender].ok
     /\ w.info[n] # None
     /\ \E i \in 1..Len(w.channels[sender].channels) :
          w.channels[sender].channels[i].remote_pubkey = w.info[n]}

\* C29: a direct_payment goes to one of the configured nodes the sender's
\* listed channels lead to, when there is one; otherwise to some configured
\* node other than the sender.
C29_DirectReceiverIsAPeer ==
  (fnOp = "simulate_transaction" /\ fnArg[4] = "direct_payment") =>
    LET w == fnArg[1]
        c == fnArg[2]
    IN IF ResolvedPeers(w, c.sender) # {}
       THEN c.receiver \in ResolvedPeers(w, c.sender)
       ELSE c.receiver \in NodeSet \ {c.sender}

\* C29 happens: the sender lists a channel to one node only, another
\* configured node was there to choose, and the payment went to the peer.
C29_OnlyPeerChosen ==
  /\ fnOp = "simulate_transaction"
  /\ fnArg[4] = "direct_payment"
  /\ ResolvedPeers(fnArg[1], fnArg[2].sender) = {fnArg[2].receiver}
  /\ Len(fnRes) = 1
  /\ fnRes[1].receiver = fnArg[2].receiver

RECURSIVE NodeTotal(_, _, _)
NodeTotal(st, field, n) ==
  IF n = 0 THEN 0
  ELSE NodeTotal(st, field, n - 1) +
       (IF field = "sent" THEN st.node_payments[NODES[n]].sent
        ELSE st.node_payments[NODES[n]].received)

\* C31: in every reachable state total_payments is the sum of
\* successful_payments and failed_payments, and total_amount is both the
\* sum of the nodes' sent totals and the sum of their received totals.
C31_TotalsAgree ==
  /\ stats.total_payments = stats.successful_payments + stats.failed_payments
  /\ stats.total_amount = NodeTotal(stats, "sent", Len(NODES))
  /\ stats.total_amount = NodeTotal(stats, "received", Len(NODES))

\* C31 happens: payments have succeeded and a payment has failed, so all
\* three payment counters and the per-node totals have moved.
C31_SucceededAndFailed ==
  /\ stats.successful_payments = 2
  /\ stats.failed_payments = 1
  /\ stats.total_amount > 0
  /\ \E n \in NodeSet : stats.node_payments[n].received > 0

(***************************************************************************)
(* C32: the selector returns two different configured nodes                *)
(***************************************************************************)
\* C32: for every pattern and every outcome of the channel and identity
\* queries, failed ones included, select_nodes_for_pattern returns a sender
\* and a receiver that are both nodes of NODES and differ from each other.
C32_TwoDifferentNodes ==
  fnOp = "select_nodes_for_pattern" =>
    /\ fnRes[1].sender \in NodeSet
    /\ fnRes[1].receiver \in NodeSet
    /\ fnRes[1].sender # fnRes[1].receiver

\* C32 happens: the sender lists a channel to a peer outside NODES, no
\* identity query is answered, and a direct payment has its two nodes.
C32_SelectedWithFailedQueries ==
  /\ fnOp = "select_nodes_for_pattern"
  /\ fnArg[1] = "direct_payment"
  /\ get_node_channels(fnArg[2], fnArg[3]).channels = <<Chan("pk-ext", 10000, 5000)>>
  /\ \A n \in NodeSet : get_node_pubkey(fnArg[2], n) = None
  /\ fnRes[1].sender = NODES[2]
  /\ fnRes[1].receiver = NODES[1]

(***************************************************************************)
(* C33: the success counters against the operation counters                *)
(***************************************************************************)
\* C33: in every reachable state auto_rebalance_successes is at most
\* auto_rebalance_events and rebalance_successes is at most
\* rebalance_operations, so neither reported success rate exceeds 100%.
C33_SuccessesWithinOperations ==
  /\ stats.auto_rebalance_successes <= stats.auto_rebalance_events
  /\ stats.rebalance_successes <= stats.rebalance_operations

(***************************************************************************)
(* C34: the connected set against the running handlers                     *)
(***************************************************************************)
\* C34: the connected set holds only subscribers whose connection handler
\* is still running: once a handler has ended, be it after a failed send
\* of the initial state_update or after a failed broadcast send, its
\* subscriber is not in the connected set; a broadcast is sent to the
\* connected set (lines 40-42), so no later broadcast is sent to it.
C34_ConnectedAreRunning ==
  \A c \in connected : handler[c] \in {"registering", "reading"}

====
